---- MODULE Spec2Model ----
(***************************************************************************)
(* Model of src/find-qtifw.ts: the resolution pipeline of setup-qtifw.     *)
(*                                                                         *)
(*   requestQtIndex                       version range -> version string  *)
(*   getInstallerExtension                platform -> installer extension  *)
(*   getInstallerLinkForSpecificVersion   version, ext, arch -> URL        *)
(*   getMirrorLinkForSpecificLink         URL, alreadyTried -> mirror URL  *)
(*                                                                         *)
(* A JavaScript string is a sequence of one-character strings, so that     *)
(* includes, endsWith, toLowerCase, semver.coerce and unary plus are       *)
(* computed on characters. An optional value (an attribute that may be     *)
(* undefined, the optional parameter alreadyTriedUrls) is a record         *)
(* [has, val]. A fetched document is the sequence of elements the cheerio  *)
(* selector yields, in document order.                                     *)
(***************************************************************************)
EXTENDS Integers, Sequences, FiniteSets, TLC

VARIABLES
    phase,      \* "idle" | "fetching" (suspended in await axios.get) | "done"
    fn,         \* the function called
    args,       \* its arguments
    fetches,    \* axios.get requests issued by the current call
    response,   \* what the fetch delivered to the call
    result,     \* the call's outcome: a returned value or a thrown one
    metaDoc,    \* the .meta4 document the mirror server holds
    returned    \* the mirrors returned so far in the caller's retry loop

vars == <<phase, fn, args, fetches, response, result, metaDoc, returned>>

-----------------------------------------------------------------------------
(* Bounds of the model *)

\* links per root listing
MaxLabels == 3

\* links per release listing
MaxLinks == 3

\* url elements per metadata document
MaxEntries == 3

-----------------------------------------------------------------------------
(* Strings *)

Digits == <<"0", "1", "2", "3", "4", "5", "6", "7", "8", "9">>

IsDigit(c) == \E d \in 1..10 : Digits[d] = c

DigitValue(c) == (CHOOSE d \in 1..10 : Digits[d] = c) - 1

LowerOf ==
    ("A" :> "a") @@ ("B" :> "b") @@ ("C" :> "c") @@ ("D" :> "d") @@
    ("E" :> "e") @@ ("F" :> "f") @@ ("G" :> "g") @@ ("H" :> "h") @@
    ("I" :> "i") @@ ("J" :> "j") @@ ("K" :> "k") @@ ("L" :> "l") @@
    ("M" :> "m") @@ ("N" :> "n") @@ ("O" :> "o") @@ ("P" :> "p") @@
    ("Q" :> "q") @@ ("R" :> "r") @@ ("S" :> "s") @@ ("T" :> "t") @@
    ("U" :> "u") @@ ("V" :> "v") @@ ("W" :> "w") @@ ("X" :> "x") @@
    ("Y" :> "y") @@ ("Z" :> "z")

UpperCase == DOMAIN LowerOf

\* String.prototype.toLowerCase
toLowerCase(s) ==
    [i \in 1..Len(s) |-> IF s[i] \in UpperCase THEN LowerOf[s[i]] ELSE s[i]]

\* String.prototype.includes
includes(s, needle) ==
    \E i \in 1..(Len(s) - Len(needle) + 1) :
        \A k \in 1..Len(needle) : s[i + k - 1] = needle[k]

\* String.prototype.endsWith
endsWith(s, suffix) ==
    /\ Len(suffix) <= Len(s)
    /\ \A k \in 1..Len(suffix) : s[Len(s) - Len(suffix) + k] = suffix[k]

startsWith(s, prefix) ==
    /\ Len(prefix) <= Len(s)
    /\ \A k \in 1..Len(prefix) : s[k] = prefix[k]

\* the digits of s from position i on, up to the first non-digit
RECURSIVE DigitRunEnd(_, _)
DigitRunEnd(s, i) ==
    IF i <= Len(s) /\ IsDigit(s[i]) THEN DigitRunEnd(s, i + 1) ELSE i

RECURSIVE ParseNat(_)
ParseNat(ds) ==
    IF ds = <<>> THEN 0
    ELSE 10 * ParseNat(SubSeq(ds, 1, Len(ds) - 1)) + DigitValue(ds[Len(ds)])

\* Number.prototype.toString for a natural number
RECURSIVE FormatNat(_)
FormatNat(n) ==
    IF n < 10 THEN <<Digits[n + 1]>>
    ELSE FormatNat(n \div 10) \o <<Digits[(n % 10) + 1]>>

\* an optional value: undefined, or a value
Undefined == [has |-> FALSE, val |-> <<>>]

Some(v) == [has |-> TRUE, val |-> v]

RangeOf(seq) == {seq[i] : i \in 1..Len(seq)}

SeqsUpTo(S, n) == UNION {[1..k -> S] : k \in 0..n}

-----------------------------------------------------------------------------
(* Results of a call *)

NoResult ==
    [kind |-> "none", value |-> <<>>, msg |-> "", p1 |-> <<>>, p2 |-> <<>>,
     versions |-> <<>>]

Return(v) ==
    [kind |-> "return", value |-> v, msg |-> "", p1 |-> <<>>, p2 |-> <<>>,
     versions |-> <<>>]

\* a thrown value: the message template and the values interpolated in it
Throw(msg, p1, p2, versions) ==
    [kind |-> "throw", value |-> <<>>, msg |-> msg, p1 |-> p1, p2 |-> p2,
     versions |-> versions]

NoResponse == [status |-> "none", labels |-> <<>>, links |-> <<>>, urls |-> <<>>]

FetchFailed == [status |-> "failed", labels |-> <<>>, links |-> <<>>, urls |-> <<>>]

NoArgs ==
    [requestedVersion |-> <<>>, platform |-> <<>>, installerExtension |-> <<>>,
     arch |-> <<>>, originalUrl |-> <<>>, alreadyTriedUrls |-> Undefined]

\* the messages of the thrown values
MsgFailedRequest == "Failed request to"

MsgInvalidVersion == "Invalid version given: available versions are:"

MsgUnknownPlatform == "Unknown platform"

MsgNoInstaller == "Couldn't locate specific installer for version"

MsgNoMirror == "Couldn't locate a single mirror on"

-----------------------------------------------------------------------------
(* Constants of the program *)

ROOT_QTIFW_URL ==
    <<"h", "t", "t", "p", "s", ":", "/", "/", "d", "o", "w", "n", "l", "o", "a", "d", ".", "q", "t", ".", "i", "o", "/", "o", "f", "f", "i", "c", "i", "a", "l", "_", "r", "e", "l", "e", "a", "s", "e", "s", "/", "q", "t", "-", "i", "n", "s", "t", "a", "l", "l", "e", "r", "-", "f", "r", "a", "m", "e", "w", "o", "r", "k", "/">>

\* ./utils is not among the sources; the three tokens are those of the
\* platform table.
PLATFORM_WINDOWS ==
    <<"w", "i", "n", "d", "o", "w", "s">>

PLATFORM_DARWIN ==
    <<"d", "a", "r", "w", "i", "n">>

PLATFORM_LINUX ==
    <<"l", "i", "n", "u", "x">>

EXT_EXE ==
    <<"e", "x", "e">>

EXT_DMG ==
    <<"d", "m", "g">>

EXT_RUN ==
    <<"r", "u", "n">>

LINUX_ARM64_SINCE ==
    <<"4", ".", "7", ".", "0">>

WINDOWS_ARM64_SINCE ==
    <<"4", ".", "8", ".", "1">>

BL_BERKELEY ==
    <<"m", "i", "r", "r", "o", "r", "s", ".", "o", "c", "f", ".", "b", "e", "r", "k", "e", "l", "e", "y", ".", "e", "d", "u">>

BL_USTC ==
    <<"m", "i", "r", "r", "o", "r", "s", ".", "u", "s", "t", "c", ".", "e", "d", "u", ".", "c", "n">>

BL_TUNA ==
    <<"m", "i", "r", "r", "o", "r", "s", ".", "t", "u", "n", "a", ".", "t", "s", "i", "n", "g", "h", "u", "a", ".", "e", "d", "u", ".", "c", "n">>

BL_GEEKPIE ==
    <<"m", "i", "r", "r", "o", "r", "s", ".", "g", "e", "e", "k", "p", "i", "e", ".", "c", "l", "u", "b">>

META4_SUFFIX ==
    <<".", "m", "e", "t", "a", "4">>

blacklisteds == <<BL_BERKELEY, BL_USTC, BL_TUNA, BL_GEEKPIE>>

-----------------------------------------------------------------------------
(* Inputs *)

P_WIN32 ==
    <<"w", "i", "n", "3", "2">>

P_LINUX_CAP ==
    <<"L", "i", "n", "u", "x">>

L_450 ==
    <<"4", ".", "5", ".", "0", "/">>

L_461 ==
    <<"4", ".", "6", ".", "1", "/">>

L_4100 ==
    <<"4", ".", "1", "0", ".", "0", "/">>

L_47 ==
    <<"q", "t", "i", "f", "w", "-", "4", ".", "7">>

L_NOTAVERSION ==
    <<"n", "o", "t", "a", "v", "e", "r", "s", "i", "o", "n">>

L_PARENT ==
    <<"P", "a", "r", "e", "n", "t", " ", "D", "i", "r", "e", "c", "t", "o", "r", "y">>

R_CARET450 ==
    <<"^", "4", ".", "5", ".", "0">>

R_4X ==
    <<"4", ".", "x">>

R_GE461 ==
    <<">", "=", "4", ".", "6", ".", "1">>

R_EXACT461 ==
    <<"4", ".", "6", ".", "1">>

R_STAR ==
    <<"*">>

R_5X ==
    <<"5", ".", "x">>

R_LATEST ==
    <<"l", "a", "t", "e", "s", "t">>

V_460 ==
    <<"4", ".", "6", ".", "0">>

V_470 ==
    <<"4", ".", "7", ".", "0">>

V_481 ==
    <<"4", ".", "8", ".", "1">>

ARCH_ARM64 ==
    <<"a", "r", "m", "6", "4">>

ARCH_X86_64 ==
    <<"x", "8", "6", "_", "6", "4">>

H_RUN_ARM64 ==
    <<"i", "f", "w", "-", "a", "r", "m", "6", "4", ".", "r", "u", "n">>

H_RUN_X64 ==
    <<"i", "f", "w", "-", "x", "8", "6", "_", "6", "4", ".", "r", "u", "n">>

H_EXE_ARM64 ==
    <<"i", "f", "w", "-", "a", "r", "m", "6", "4", ".", "e", "x", "e">>

H_EXE_PLAIN ==
    <<"i", "f", "w", ".", "e", "x", "e">>

H_DMG ==
    <<"i", "f", "w", ".", "d", "m", "g">>

H_PARENT ==
    <<".", ".", "/">>

H_BADAUTH ==
    <<"h", "t", "t", "p", ":", "/", "/", "%", "@", "h", "/", "i", "f", "w", "-", "a", "r", "m", "6", "4", ".", "r", "u", "n">>

U_A ==
    <<"h", "t", "t", "p", ":", "/", "/", "a", ".", "i", "o", "/", "f">>

U_B ==
    <<"h", "t", "t", "p", ":", "/", "/", "B", ".", "i", "o", "/", "f">>

U_BLACKHOST ==
    <<"h", "t", "t", "p", ":", "/", "/", "M", "I", "R", "R", "O", "R", "S", ".", "U", "S", "T", "C", ".", "E", "D", "U", ".", "C", "N", "/", "f">>

U_BLACKPATH ==
    <<"h", "t", "t", "p", ":", "/", "/", "d", ".", "i", "o", "/", "m", "i", "r", "r", "o", "r", "s", ".", "u", "s", "t", "c", ".", "e", "d", "u", ".", "c", "n", "/", "f">>

PRIO_10 ==
    <<"1", "0">>

PRIO_20 ==
    <<"2", "0">>

PRIO_ABC ==
    <<"a", "b", "c">>

ARTIFACT_URL ==
    <<"h", "t", "t", "p", "s", ":", "/", "/", "d", "o", "w", "n", "l", "o", "a", "d", ".", "q", "t", ".", "i", "o", "/", "o", "f", "f", "i", "c", "i", "a", "l", "_", "r", "e", "l", "e", "a", "s", "e", "s", "/", "q", "t", "-", "i", "n", "s", "t", "a", "l", "l", "e", "r", "-", "f", "r", "a", "m", "e", "w", "o", "r", "k", "/", "4", ".", "6", ".", "0", "/", "i", "f", "w", ".", "r", "u", "n">>


HOST_B ==
    <<"b", ".", "i", "o">>
HOST_A_UPPER ==
    <<"A", ".", "I", "O">>

-----------------------------------------------------------------------------
(* semver, as far as the program uses it *)

Version(ma, mi, pa) == [major |-> ma, minor |-> mi, patch |-> pa]

\* semver.coerce: the first run of digits of the text is the major number; a
\* "." followed by digits gives the minor number, and once more the patch
\* number; what is missing is 0. A text without a digit gives null.
coerce(text) ==
    LET digitAt == {i \in 1..Len(text) : IsDigit(text[i])}
    IN  IF digitAt = {} THEN Undefined
        ELSE
          LET i  == CHOOSE p \in digitAt : \A q \in digitAt : p <= q
              e1 == DigitRunEnd(text, i)
              hasMinor == e1 + 1 <= Len(text) /\ text[e1] = "." /\ IsDigit(text[e1 + 1])
              e2 == IF hasMinor THEN DigitRunEnd(text, e1 + 1) ELSE e1
              hasPatch == hasMinor /\ e2 + 1 <= Len(text) /\ text[e2] = "."
                          /\ IsDigit(text[e2 + 1])
              e3 == IF hasPatch THEN DigitRunEnd(text, e2 + 1) ELSE e2
          IN  Some(Version(ParseNat(SubSeq(text, i, e1 - 1)),
                           IF hasMinor THEN ParseNat(SubSeq(text, e1 + 1, e2 - 1)) ELSE 0,
                           IF hasPatch THEN ParseNat(SubSeq(text, e2 + 1, e3 - 1)) ELSE 0))

\* semver.parse of a full version "major.minor.patch"; null for anything else
parse(text) ==
    LET e1 == DigitRunEnd(text, 1)
        e2 == DigitRunEnd(text, e1 + 1)
        e3 == DigitRunEnd(text, e2 + 1)
    IN  IF /\ e1 > 1 /\ e1 <= Len(text) /\ text[e1] = "."
           /\ e2 > e1 + 1 /\ e2 <= Len(text) /\ text[e2] = "."
           /\ e3 > e2 + 1 /\ e3 = Len(text) + 1
        THEN Some(Version(ParseNat(SubSeq(text, 1, e1 - 1)),
                          ParseNat(SubSeq(text, e1 + 1, e2 - 1)),
                          ParseNat(SubSeq(text, e2 + 1, e3 - 1))))
        ELSE Undefined

\* SemVer.prototype.compare: major, then minor, then patch
compare(a, b) ==
    IF a.major # b.major THEN (IF a.major < b.major THEN -1 ELSE 1)
    ELSE IF a.minor # b.minor THEN (IF a.minor < b.minor THEN -1 ELSE 1)
    ELSE IF a.patch # b.patch THEN (IF a.patch < b.patch THEN -1 ELSE 1)
    ELSE 0

\* SemVer.prototype.version: the canonical string
versionString(v) ==
    FormatNat(v.major) \o <<".">> \o FormatNat(v.minor) \o <<".">> \o FormatNat(v.patch)

InvalidRange == [kind |-> "invalid", v |-> Version(0, 0, 0)]

\* new semver.Range(text), for the ranges "*", "^M.m.p", ">=M.m.p", "M.x" and
\* "M.m.p"; any other text is not a range
parseRange(text) ==
    IF text = <<"*">> THEN [kind |-> "any", v |-> Version(0, 0, 0)]
    ELSE IF startsWith(text, <<"^">>) THEN
        LET v == parse(SubSeq(text, 2, Len(text)))
        IN  IF v.has THEN [kind |-> "caret", v |-> v.val] ELSE InvalidRange
    ELSE IF startsWith(text, <<">", "=">>) THEN
        LET v == parse(SubSeq(text, 3, Len(text)))
        IN  IF v.has THEN [kind |-> "gte", v |-> v.val] ELSE InvalidRange
    ELSE IF endsWith(text, <<".", "x">>) THEN
        LET e1 == DigitRunEnd(text, 1)
        IN  IF e1 > 1 /\ e1 = Len(text) - 1
            THEN [kind |-> "xmajor", v |-> Version(ParseNat(SubSeq(text, 1, e1 - 1)), 0, 0)]
            ELSE InvalidRange
    ELSE
        LET v == parse(text)
        IN  IF v.has THEN [kind |-> "eq", v |-> v.val] ELSE InvalidRange

\* the first version above the caret range ^v
caretUpper(v) ==
    IF v.major > 0 THEN Version(v.major + 1, 0, 0)
    ELSE IF v.minor > 0 THEN Version(0, v.minor + 1, 0)
    ELSE Version(0, 0, v.patch + 1)

\* Range.prototype.test
satisfies(v, range) ==
    CASE range.kind = "any"    -> TRUE
      [] range.kind = "eq"     -> compare(v, range.v) = 0
      [] range.kind = "gte"    -> compare(v, range.v) >= 0
      [] range.kind = "caret"  -> compare(v, range.v) >= 0 /\ compare(v, caretUpper(range.v)) < 0
      [] range.kind = "xmajor" -> v.major = range.v.major
      [] OTHER                 -> FALSE

\* the loop of semver.maxSatisfying: max is replaced by each later version
\* that satisfies the range and compares above it
RECURSIVE maxSatisfyingFrom(_, _, _)
maxSatisfyingFrom(versions, range, max) ==
    IF versions = <<>> THEN max
    ELSE LET v == Head(versions)
         IN  maxSatisfyingFrom(Tail(versions), range,
                 IF satisfies(v, range) /\ (~max.has \/ compare(max.val, v) = -1)
                 THEN Some(v) ELSE max)

\* semver.maxSatisfying: null for a text that is no range
maxSatisfying(versions, rangeText) ==
    LET range == parseRange(rangeText)
    IN  IF range.kind = "invalid" THEN Undefined
        ELSE maxSatisfyingFrom(versions, range, Undefined)

\* semver.gte on two parsed versions
gte(a, b) == compare(a, b) >= 0

-----------------------------------------------------------------------------
(* requestQtIndex *)

\* parseQtIndex giving up at the first text that does not coerce
RECURSIVE parseQtIndex_stopAtInvalid(_)
parseQtIndex_stopAtInvalid(labels) ==
    IF labels = <<>> THEN <<>>
    ELSE LET v == coerce(Head(labels))
         IN  IF v.has THEN <<v.val>> \o parseQtIndex_stopAtInvalid(Tail(labels))
             ELSE <<>>

\* parseQtIndex: the texts of the listing's links that coerce to a version
RECURSIVE parseQtIndex(_)
parseQtIndex(labels) ==
    IF labels = <<>> THEN <<>>
    ELSE LET v == coerce(Head(labels))
         IN  (IF v.has THEN <<v.val>> ELSE <<>>) \o parseQtIndex(Tail(labels))

\* lines 32-39: what requestQtIndex does with the fetched listing
requestQtIndexResult(labels, requestedVersion_) ==
    LET versions   == parseQtIndex(labels)
        maxVersion == maxSatisfying(versions, requestedVersion_)
    IN  IF ~maxVersion.has
        THEN Throw(MsgInvalidVersion, <<>>, <<>>, versions)
        ELSE Return(versionString(maxVersion.val))

-----------------------------------------------------------------------------
(* getInstallerExtension *)

\* getInstallerExtension without the throw of line 68
getInstallerExtension_noThrow(platform_) ==
    IF platform_ = PLATFORM_WINDOWS THEN Return(EXT_EXE)
    ELSE IF platform_ = PLATFORM_DARWIN THEN Return(EXT_DMG)
    ELSE IF platform_ = PLATFORM_LINUX THEN Return(EXT_RUN)
    ELSE Return(<<>>)

\* lines 59-71
getInstallerExtension(platform_) ==
    IF platform_ = PLATFORM_WINDOWS THEN Return(EXT_EXE)
    ELSE IF platform_ = PLATFORM_DARWIN THEN Return(EXT_DMG)
    ELSE IF platform_ = PLATFORM_LINUX THEN Return(EXT_RUN)
    ELSE Throw(MsgUnknownPlatform, platform_, <<>>, <<>>)

-----------------------------------------------------------------------------
(* url.resolve *)

HexDigits ==
    {"0", "1", "2", "3", "4", "5", "6", "7", "8", "9",
     "a", "b", "c", "d", "e", "f", "A", "B", "C", "D", "E", "F"}

SchemeHttp == <<"h", "t", "t", "p", ":", "/", "/">>

\* the authority of an absolute http URL: from after "//" to the next "/"
authority(u) ==
    LET from   == Len(SchemeHttp) + 1
        slashes == {i \in from..Len(u) : u[i] = "/"}
        to     == IF slashes = {} THEN Len(u)
                  ELSE (CHOOSE i \in slashes : \A j \in slashes : i <= j) - 1
    IN  SubSeq(u, from, to)

\* url.parse decodes the user information before "@" with decodeURIComponent,
\* which throws URIError on a "%" that two hexadecimal digits do not follow
malformedAuth(u) ==
    LET a   == authority(u)
        ats == {i \in 1..Len(a) : a[i] = "@"}
    IN  /\ ats # {}
        /\ LET at == CHOOSE i \in ats : \A j \in ats : i >= j
           IN  \E i \in 1..(at - 1) :
                  /\ a[i] = "%"
                  /\ ~(i + 2 <= at - 1 /\ a[i + 1] \in HexDigits /\ a[i + 2] \in HexDigits)

\* the base up to and including its last "/"
directoryOf(base) ==
    LET slashes == {i \in 1..Len(base) : base[i] = "/"}
    IN  IF slashes = {} THEN <<>>
        ELSE SubSeq(base, 1, CHOOSE i \in slashes : \A j \in slashes : i >= j)

\* url.resolve(base, relative), for an absolute http URL or a path relative
\* to the base's directory: [threw, url]
url_resolve(base, relative) ==
    IF startsWith(relative, SchemeHttp)
    THEN IF malformedAuth(relative)
         THEN [threw |-> TRUE, url |-> <<>>]
         ELSE [threw |-> FALSE, url |-> relative]
    ELSE [threw |-> FALSE, url |-> directoryOf(base) \o relative]

-----------------------------------------------------------------------------
(* getInstallerLinkForSpecificVersion *)

\* line 78
qtPageUrlOf(requestedVersion_) ==
    url_resolve(ROOT_QTIFW_URL, requestedVersion_).url \o <<"/">>

\* lines 83-84; requestedVersion_ is a full version
linux_has_arm64(requestedVersion_) ==
    gte(parse(requestedVersion_).val, parse(LINUX_ARM64_SINCE).val)

windows_has_arm64(requestedVersion_) ==
    gte(parse(requestedVersion_).val, parse(WINDOWS_ARM64_SINCE).val)

\* linkQualifies with the "run" links gated from the "exe" version on
linkQualifies_windowsThreshold(thisLink, requestedVersion_, installerExtension_, arch_) ==
    /\ thisLink.has /\ thisLink.val # <<>>
    /\ endsWith(thisLink.val, installerExtension_)
    /\ \/ installerExtension_ # EXT_RUN
       \/ ~windows_has_arm64(requestedVersion_)
       \/ includes(thisLink.val, arch_)
    /\ \/ installerExtension_ # EXT_EXE
       \/ ~windows_has_arm64(requestedVersion_)
       \/ includes(thisLink.val, arch_)

\* lines 94-103: the condition under which a link replaces installerLink;
\* thisLink is the optional href attribute
linkQualifies(thisLink, requestedVersion_, installerExtension_, arch_) ==
    /\ thisLink.has /\ thisLink.val # <<>>
    /\ endsWith(thisLink.val, installerExtension_)
    /\ \/ installerExtension_ # EXT_RUN
       \/ ~linux_has_arm64(requestedVersion_)
       \/ includes(thisLink.val, arch_)
    /\ \/ installerExtension_ # EXT_EXE
       \/ ~windows_has_arm64(requestedVersion_)
       \/ includes(thisLink.val, arch_)

\* lines 92-106: the each loop over the listing's links; acc is
\* [threw, installerLink], installerLink an optional string (null is absent)
RECURSIVE scanLinks(_, _, _, _, _)
scanLinks(links, requestedVersion_, installerExtension_, arch_, acc) ==
    IF links = <<>> \/ acc.threw THEN acc
    ELSE LET thisLink == Head(links)
             r == url_resolve(qtPageUrlOf(requestedVersion_), thisLink.val)
         IN  scanLinks(Tail(links), requestedVersion_, installerExtension_, arch_,
                 IF linkQualifies(thisLink, requestedVersion_, installerExtension_, arch_)
                 THEN (IF r.threw
                       THEN [threw |-> TRUE, installerLink |-> acc.installerLink]
                       ELSE [threw |-> FALSE, installerLink |-> Some(r.url)])
                 ELSE acc)

\* line 81: let installerLink = ''
installerLinkInit == Some(<<>>)

\* line 114: installerLink == null
isNull(installerLink) == ~installerLink.has

\* lines 86-119: what the call does once the listing is fetched. A throw in
\* the then callback reaches the catch of the same chain.
installerLinkResult(links, requestedVersion_, installerExtension_, arch_) ==
    LET acc == scanLinks(links, requestedVersion_, installerExtension_, arch_,
                         [threw |-> FALSE, installerLink |-> installerLinkInit])
    IN  IF acc.threw
        THEN Throw(MsgFailedRequest, qtPageUrlOf(requestedVersion_), <<>>, <<>>)
        ELSE IF isNull(acc.installerLink)
        THEN Throw(MsgNoInstaller, requestedVersion_, installerExtension_, <<>>)
        ELSE Return(acc.installerLink.val)

-----------------------------------------------------------------------------
(* getMirrorLinkForSpecificLink *)

\* filterOutUrl comparing without toLowerCase
filterOutUrl_caseSensitive(url, alreadyTriedUrls_) ==
    IF ~alreadyTriedUrls_.has THEN FALSE
    ELSE \E i \in 1..Len(alreadyTriedUrls_.val) : includes(url, alreadyTriedUrls_.val[i])

\* filterOutUrl with the flag assigned on every round of the loop, so that
\* the last entry decides
filterOutUrl_lastOnly(url, alreadyTriedUrls_) ==
    IF ~alreadyTriedUrls_.has THEN FALSE
    ELSE /\ alreadyTriedUrls_.val # <<>>
         /\ includes(toLowerCase(url),
                     toLowerCase(alreadyTriedUrls_.val[Len(alreadyTriedUrls_.val)]))

\* lines 127-143
filterOutUrl(url, alreadyTriedUrls_) ==
    IF ~alreadyTriedUrls_.has THEN FALSE
    ELSE LET u == toLowerCase(url)
         IN  \E i \in 1..Len(alreadyTriedUrls_.val) :
                 includes(u, toLowerCase(alreadyTriedUrls_.val[i]))

\* lines 145-154
isUrlBlackListed(url) == filterOutUrl(url, Some(blacklisteds))

NaN == [nan |-> TRUE, n |-> 0]

Num(n) == [nan |-> FALSE, n |-> n]

\* unary plus on a string of the kind the documents carry: a run of decimal
\* digits is its value, any other non-empty text is NaN
toNumber(text) ==
    IF text # <<>> /\ \A i \in 1..Len(text) : IsDigit(text[i])
    THEN Num(ParseNat(text))
    ELSE NaN

\* line 160
metaUrlOf(originalUrl_) == originalUrl_ \o META4_SUFFIX

\* line 179: thisLink && thisPriority
entryIsRead(entry) ==
    /\ entry.text # <<>>
    /\ entry.priority.has /\ entry.priority.val # <<>>

\* lines 179-191: whether the each loop pushes the entry to mirrors
entryIsPushed(entry, alreadyTriedUrls_) ==
    /\ entryIsRead(entry)
    /\ ~isUrlBlackListed(entry.text)
    /\ ~filterOutUrl(entry.text, alreadyTriedUrls_)

\* lines 176-192: mirrors after the each loop
RECURSIVE collectMirrors(_, _)
collectMirrors(entries, alreadyTriedUrls_) ==
    IF entries = <<>> THEN <<>>
    ELSE LET e == Head(entries)
         IN  (IF entryIsPushed(e, alreadyTriedUrls_)
              THEN <<[priority |-> toNumber(e.priority.val), url |-> e.text]>>
              ELSE <<>>)
             \o collectMirrors(Tail(entries), alreadyTriedUrls_)

\* line 204: (a, b) => a.priority - b.priority; sort reads a NaN as +0
comparator(a, b) ==
    IF a.priority.nan \/ b.priority.nan THEN 0 ELSE a.priority.n - b.priority.n

Reverse(a) == [i \in 1..Len(a) |-> a[Len(a) + 1 - i]]

\* Array.prototype.sort as V8 runs it on an array of fewer than 64 elements:
\* the run the array starts with is found (and reversed if it strictly
\* descends), then each later element is inserted by binary search.

\* the last index of the run that a[idx - 1] belongs to
RECURSIVE runEnd(_, _, _)
runEnd(a, idx, descending) ==
    IF idx > Len(a) THEN Len(a)
    ELSE LET order == comparator(a[idx], a[idx - 1])
         IN  IF (descending /\ order >= 0) \/ (~descending /\ order < 0)
             THEN idx - 1
             ELSE runEnd(a, idx + 1, descending)

countAndMakeRun(a) ==
    IF Len(a) < 2 THEN [run |-> Len(a), a |-> a]
    ELSE LET descending == comparator(a[2], a[1]) < 0
             n == runEnd(a, 3, descending)
         IN  [run |-> n,
              a |-> IF descending
                    THEN Reverse(SubSeq(a, 1, n)) \o SubSeq(a, n + 1, Len(a))
                    ELSE a]

\* the place of pivot in a[left..right-1]: behind the elements it does not
\* compare below
RECURSIVE insertionPoint(_, _, _, _)
insertionPoint(a, pivot, left, right) ==
    IF left >= right THEN left
    ELSE LET mid == left + ((right - left) \div 2)
         IN  IF comparator(pivot, a[mid]) < 0
             THEN insertionPoint(a, pivot, left, mid)
             ELSE insertionPoint(a, pivot, mid + 1, right)

RECURSIVE binaryInsertionSort(_, _)
binaryInsertionSort(a, start) ==
    IF start > Len(a) THEN a
    ELSE LET pivot == a[start]
             pos   == insertionPoint(a, pivot, 1, start)
         IN  binaryInsertionSort(
                 SubSeq(a, 1, pos - 1) \o <<pivot>> \o SubSeq(a, pos, start - 1)
                     \o SubSeq(a, start + 1, Len(a)),
                 start + 1)

\* line 204: mirrors.sort((a, b) => a.priority - b.priority)
sort(mirrors) ==
    LET r == countAndMakeRun(mirrors)
    IN  binaryInsertionSort(r.a, r.run + 1)

\* lines 200-204: the outcome of the call once the document is fetched, and
\* the mirror it returns
mirrorResult(entries, originalUrl_, alreadyTriedUrls_) ==
    LET mirrors == collectMirrors(entries, alreadyTriedUrls_)
    IN  IF Len(mirrors) = 0
        THEN [out |-> Throw(MsgNoMirror, metaUrlOf(originalUrl_), <<>>, <<>>),
              mirror |-> [priority |-> NaN, url |-> <<>>]]
        ELSE [out |-> Return(sort(mirrors)[1].url), mirror |-> sort(mirrors)[1]]

-----------------------------------------------------------------------------
(* The inputs the calls are made with and the documents the servers hold *)

Platforms ==
    {PLATFORM_WINDOWS, PLATFORM_DARWIN, PLATFORM_LINUX, P_WIN32, P_LINUX_CAP, <<>>}

Labels == {L_450, L_461, L_4100, L_47, L_NOTAVERSION, L_PARENT}

Ranges == {R_CARET450, R_4X, R_GE461, R_EXACT461, R_STAR, R_5X, R_LATEST}

RootListings == SeqsUpTo(Labels, MaxLabels)

\* requestedVersion is a version requestQtIndex returned: semver.gte
\* (lines 83-84) parses it
RequestedVersions == {V_460, V_470, V_481}

Extensions == {EXT_EXE, EXT_DMG, EXT_RUN}

Archs == {ARCH_ARM64, ARCH_X86_64}

\* the href attributes of a release listing's links; Undefined is a link
\* without href
Hrefs ==
    {Undefined, Some(H_RUN_ARM64), Some(H_RUN_X64), Some(H_EXE_ARM64), Some(H_EXE_PLAIN),
     Some(H_DMG), Some(H_PARENT), Some(H_BADAUTH)}

ReleaseListings == SeqsUpTo(Hrefs, MaxLinks)

\* the url elements of a metadata document: the priority attribute (absent,
\* numeric or not) and the text
MetaEntries ==
    [priority : {Some(PRIO_10), Some(PRIO_20), Some(PRIO_ABC)}, text : {U_A}]
    \cup {[priority |-> Some(PRIO_10), text |-> U_B],
          [priority |-> Some(PRIO_10), text |-> U_BLACKHOST],
          [priority |-> Some(PRIO_10), text |-> U_BLACKPATH],
          [priority |-> Undefined, text |-> U_A],
          [priority |-> Some(PRIO_10), text |-> <<>>]}

MetaDocuments == SeqsUpTo(MetaEntries, MaxEntries)

\* alreadyTriedUrls of the first call of a retry loop: absent, empty, or a
\* host tried before
InitialTried == {Undefined, Some(<<>>), Some(<<HOST_B>>), Some(<<HOST_A_UPPER>>)}

-----------------------------------------------------------------------------
(* The calls *)

Init ==
    /\ phase = "idle"
    /\ fn = "none"
    /\ args = NoArgs
    /\ fetches = 0
    /\ response = NoResponse
    /\ result = NoResult
    /\ metaDoc = <<>>
    /\ returned = <<>>

\* getInstallerExtension(platform): no fetch, done at once
CallGetInstallerExtension ==
    /\ phase = "idle"
    /\ \E p \in Platforms :
           /\ phase' = "done"
           /\ fn' = "getInstallerExtension"
           /\ args' = [NoArgs EXCEPT !.platform = p]
           /\ result' = getInstallerExtension(p)
           /\ UNCHANGED <<fetches, response, metaDoc, returned>>

\* requestQtIndex(requestedVersion) up to await axios.get(ROOT_QTIFW_URL)
CallRequestQtIndex ==
    /\ phase = "idle"
    /\ \E r \in Ranges :
           /\ phase' = "fetching"
           /\ fn' = "requestQtIndex"
           /\ args' = [NoArgs EXCEPT !.requestedVersion = r]
           /\ fetches' = fetches + 1
           /\ UNCHANGED <<response, result, metaDoc, returned>>

\* lines 26-30: the request failed
RequestQtIndexFetchFailed ==
    /\ phase = "fetching" /\ fn = "requestQtIndex"
    /\ phase' = "done"
    /\ response' = FetchFailed
    /\ result' = Throw(MsgFailedRequest, ROOT_QTIFW_URL, <<>>, <<>>)
    /\ UNCHANGED <<fn, args, fetches, metaDoc, returned>>

\* lines 23-25, 32-39: the listing arrived
RequestQtIndexFetched ==
    /\ phase = "fetching" /\ fn = "requestQtIndex"
    /\ \E labels \in RootListings :
           /\ phase' = "done"
           /\ response' = [NoResponse EXCEPT !.status = "ok", !.labels = labels]
           /\ result' = requestQtIndexResult(labels, args.requestedVersion)
           /\ UNCHANGED <<fn, args, fetches, metaDoc, returned>>

\* getInstallerLinkForSpecificVersion up to await axios.get(qtPageUrl)
CallGetInstallerLink ==
    /\ phase = "idle"
    /\ \E v \in RequestedVersions, e \in Extensions, a \in Archs :
           /\ phase' = "fetching"
           /\ fn' = "getInstallerLinkForSpecificVersion"
           /\ args' = [NoArgs EXCEPT !.requestedVersion = v, !.installerExtension = e,
                                     !.arch = a]
           /\ fetches' = fetches + 1
           /\ UNCHANGED <<response, result, metaDoc, returned>>

\* lines 108-112: the request failed
InstallerLinkFetchFailed ==
    /\ phase = "fetching" /\ fn = "getInstallerLinkForSpecificVersion"
    /\ phase' = "done"
    /\ response' = FetchFailed
    /\ result' = Throw(MsgFailedRequest, qtPageUrlOf(args.requestedVersion), <<>>, <<>>)
    /\ UNCHANGED <<fn, args, fetches, metaDoc, returned>>

\* lines 88-119: the release listing arrived
InstallerLinkFetched ==
    /\ phase = "fetching" /\ fn = "getInstallerLinkForSpecificVersion"
    /\ \E links \in ReleaseListings :
           /\ phase' = "done"
           /\ response' = [NoResponse EXCEPT !.status = "ok", !.links = links]
           /\ result' = installerLinkResult(links, args.requestedVersion,
                                            args.installerExtension, args.arch)
           /\ UNCHANGED <<fn, args, fetches, metaDoc, returned>>

\* the first getMirrorLinkForSpecificLink of a retry loop, up to
\* await axios.get(metaUrl); the server holds doc for the whole loop
CallGetMirrorLink ==
    /\ phase = "idle"
    /\ \E doc \in MetaDocuments, tried \in InitialTried :
           /\ phase' = "fetching"
           /\ fn' = "getMirrorLinkForSpecificLink"
           /\ args' = [NoArgs EXCEPT !.originalUrl = ARTIFACT_URL,
                                     !.alreadyTriedUrls = tried]
           /\ fetches' = fetches + 1
           /\ metaDoc' = doc
           /\ UNCHANGED <<response, result, returned>>

\* lines 194-198: the request failed
MirrorLinkFetchFailed ==
    /\ phase = "fetching" /\ fn = "getMirrorLinkForSpecificLink"
    /\ phase' = "done"
    /\ response' = FetchFailed
    /\ result' = Throw(MsgFailedRequest, metaUrlOf(args.originalUrl), <<>>, <<>>)
    /\ UNCHANGED <<fn, args, fetches, metaDoc, returned>>

\* lines 167-204: the metadata document arrived
MirrorLinkFetched ==
    /\ phase = "fetching" /\ fn = "getMirrorLinkForSpecificLink"
    /\ LET r == mirrorResult(metaDoc, args.originalUrl, args.alreadyTriedUrls)
       IN  /\ phase' = "done"
           /\ response' = [NoResponse EXCEPT !.status = "ok", !.urls = metaDoc]
           /\ result' = r.out
           /\ returned' = IF r.out.kind = "return" THEN Append(returned, r.mirror)
                          ELSE returned
           /\ UNCHANGED <<fn, args, fetches, metaDoc>>

\* the caller's retry: the download from the returned mirror failed, the
\* caller appends its URL to alreadyTried and calls again
CallerRetry ==
    /\ phase = "done" /\ fn = "getMirrorLinkForSpecificLink"
    /\ result.kind = "return"
    /\ phase' = "fetching"
    /\ args' = [args EXCEPT !.alreadyTriedUrls =
                  Some(Append(IF @.has THEN @.val ELSE <<>>, result.value))]
    /\ fetches' = 1
    /\ response' = NoResponse
    /\ result' = NoResult
    /\ UNCHANGED <<fn, metaDoc, returned>>

\* the call is over; the next one starts from scratch
Finish ==
    /\ phase = "done"
    /\ phase' = "idle"
    /\ fn' = "none"
    /\ args' = NoArgs
    /\ fetches' = 0
    /\ response' = NoResponse
    /\ result' = NoResult
    /\ metaDoc' = <<>>
    /\ returned' = <<>>

Next ==
    \/ CallGetInstallerExtension
    \/ CallRequestQtIndex
    \/ RequestQtIndexFetchFailed
    \/ RequestQtIndexFetched
    \/ CallGetInstallerLink
    \/ InstallerLinkFetchFailed
    \/ InstallerLinkFetched
    \/ CallGetMirrorLink
    \/ MirrorLinkFetchFailed
    \/ MirrorLinkFetched
    \/ CallerRetry
    \/ Finish

Spec == Init /\ [][Next]_vars

\* the mirror retry loop alone
NextMirror ==
    \/ CallGetMirrorLink
    \/ MirrorLinkFetchFailed
    \/ MirrorLinkFetched
    \/ CallerRetry
    \/ Finish

SpecMirror == Init /\ [][NextMirror]_vars

-----------------------------------------------------------------------------
(* The properties checked *)

FnIndex == "requestQtIndex"

FnLink == "getInstallerLinkForSpecificVersion"

FnMirror == "getMirrorLinkForSpecificLink"

\* the call of f is over and its fetch delivered a document
Fetched(f) == phase = "done" /\ fn = f /\ response.status = "ok"

\* version text v is at least ma.mi.pa
AtLeast(v, ma, mi, pa) ==
    LET p == parse(v).val
    IN  \/ p.major > ma
        \/ p.major = ma /\ p.minor > mi
        \/ p.major = ma /\ p.minor = mi /\ p.patch >= pa

\* the selection predicate of the release listing's links, as specified
SelectionPredicate(link, v, ext, arch_) ==
    /\ link.has
    /\ endsWith(link.val, ext)
    /\ (\/ ext = EXT_RUN /\ AtLeast(v, 4, 7, 0)
        \/ ext = EXT_EXE /\ AtLeast(v, 4, 8, 1)) => includes(link.val, arch_)

\* the links of the fetched release listing that satisfy the predicate
Qualifying ==
    {i \in 1..Len(response.links) :
        SelectionPredicate(response.links[i], args.requestedVersion,
                           args.installerExtension, args.arch)}

LastOf(S) == CHOOSE i \in S : \A j \in S : j <= i

\* the release listing's URL and the absolute URL of a link on it
PageUrl == ROOT_QTIFW_URL \o args.requestedVersion \o <<"/">>

Resolved(href) == IF startsWith(href, SchemeHttp) THEN href ELSE PageUrl \o href

\* C1: whenever the fetched release listing holds no link that satisfies the
\* selection predicate (an empty listing included),
\* getInstallerLinkForSpecificVersion throws the "Couldn't locate specific
\* installer" error carrying the version and the extension, and returns no
\* value.
C1_ArtifactNotFound ==
    (Fetched(FnLink) /\ Qualifying = {})
        => result = Throw(MsgNoInstaller, args.requestedVersion,
                          args.installerExtension, <<>>)

Coerced ==
    {coerce(response.labels[i]).val :
        i \in {k \in 1..Len(response.labels) : coerce(response.labels[k]).has}}

\* those that satisfy the requested range
Satisfying == {v \in Coerced : satisfies(v, parseRange(args.requestedVersion))}

\* C7: requestQtIndex returns the canonical string of the maximum, among the
\* versions the listing's labels coerce to, of those that satisfy the range;
\* labels that do not coerce are ignored. When none satisfies it (an empty or
\* all-invalid listing included) it throws "Invalid version given" carrying
\* the discovered versions and returns nothing.
C7_MaxSatisfying ==
    Fetched(FnIndex) =>
        IF Satisfying # {}
        THEN /\ result.kind = "return"
             /\ \E v \in Satisfying :
                   /\ \A w \in Satisfying : compare(w, v) <= 0
                   /\ result.value = versionString(v)
        ELSE /\ result.kind = "throw"
             /\ result.msg = MsgInvalidVersion
             /\ RangeOf(result.versions) = Coerced
             /\ Len(result.versions) =
                   Cardinality({k \in 1..Len(response.labels) : coerce(response.labels[k]).has})

\* C7's case: a label that does not coerce comes first, two versions satisfy
\* the range, and the greater one, which is not the last, is returned
C7_Witness ==
    /\ Fetched(FnIndex)
    /\ response.labels = <<L_PARENT, L_4100, L_461>>
    /\ args.requestedVersion = R_4X
    /\ result = Return(<<"4", ".", "1", "0", ".", "0">>)

\* C8: getInstallerExtension maps windows to "exe", darwin to "dmg" and linux
\* to "run"; for any other string it throws "Unknown platform" carrying the
\* string and returns no extension.
C8_ExtensionMapping ==
    (phase = "done" /\ fn = "getInstallerExtension") =>
        result = CASE args.platform = <<"w", "i", "n", "d", "o", "w", "s">>
                        -> Return(<<"e", "x", "e">>)
                   [] args.platform = <<"d", "a", "r", "w", "i", "n">>
                        -> Return(<<"d", "m", "g">>)
                   [] args.platform = <<"l", "i", "n", "u", "x">>
                        -> Return(<<"r", "u", "n">>)
                   [] OTHER
                        -> Throw(MsgUnknownPlatform, args.platform, <<>>, <<>>)

\* C8's case: "Linux" is not a platform token, the call threw
C8_Witness ==
    /\ phase = "done" /\ fn = "getInstallerExtension"
    /\ args.platform = P_LINUX_CAP
    /\ result.kind = "throw"

\* the URL a call fetches
FetchedUrl ==
    CASE fn = FnIndex  -> ROOT_QTIFW_URL
      [] fn = FnLink   -> PageUrl
      [] fn = FnMirror -> args.originalUrl \o META4_SUFFIX
      [] OTHER         -> <<>>

\* C9: each of the three fetching functions issues exactly one request per
\* call; when the request fails the call throws "Failed request to" with the
\* URL; and it throws that only when the request failed, not when handling a
\* fetched document fails.
C9_FetchErrorOnlyWhenFetchFailed ==
    (phase = "done" /\ fn \in {FnIndex, FnLink, FnMirror}) =>
        /\ fetches = 1
        /\ response.status = "failed"
              => result = Throw(MsgFailedRequest, FetchedUrl, <<>>, <<>>)
        /\ (result.kind = "throw" /\ result.msg = MsgFailedRequest)
              => response.status = "failed"

\* alreadyTried as a list: an absent one is empty
AsList(tried) == IF tried.has THEN tried.val ELSE <<>>

\* s contains t, letter case ignored
ContainsNoCase(s, t) == includes(toLowerCase(s), toLowerCase(t))

MatchesTried(text, tried) ==
    \E i \in 1..Len(AsList(tried)) : ContainsNoCase(text, AsList(tried)[i])

\* the entries of the metadata document that carry a priority and a URL
ReadEntries == {i \in 1..Len(metaDoc) : entryIsRead(metaDoc[i])}

\* the entries the current call keeps as candidates
Kept == {i \in ReadEntries : entryIsPushed(metaDoc[i], args.alreadyTriedUrls)}

\* the mirror the current call returned
LastReturned == returned[Len(returned)]

\* the kept entries whose priority is a number, and the least such number
NumericKept == {i \in Kept : ~toNumber(metaDoc[i].priority.val).nan}

PriorityOf(i) == toNumber(metaDoc[i].priority.val).n

\* C2: when candidates remain after filtering, getMirrorLinkForSpecificLink
\* returns the URL of the candidate with the numerically lowest priority, the
\* first in document order among those of that priority.
C2_LowestPriorityFirst ==
    (Fetched(FnMirror) /\ NumericKept # {}) =>
        LET lowest == {i \in NumericKept :
                          \A j \in NumericKept : PriorityOf(i) <= PriorityOf(j)}
            first  == CHOOSE i \in lowest : \A j \in lowest : i <= j
        IN  result = Return(metaDoc[first].text)

\* C3 as stated: an entry is discarded exactly when its host contains a
\* Blacklist entry or it contains an entry of alreadyTried (letter case
\* ignored); the returned URL matches neither; with no candidate left the call
\* throws "Couldn't locate a single mirror" with the metadata URL.
C3_DiscardByHost ==
    Fetched(FnMirror) =>
        /\ \A i \in ReadEntries :
              i \notin Kept <=>
                 \/ \E b \in RangeOf(blacklisteds) :
                       ContainsNoCase(authority(metaDoc[i].text), b)
                 \/ MatchesTried(metaDoc[i].text, args.alreadyTriedUrls)
        /\ result.kind = "return" =>
              /\ ~\E b \in RangeOf(blacklisteds) : ContainsNoCase(result.value, b)
              /\ ~MatchesTried(result.value, args.alreadyTriedUrls)
        /\ Kept = {} =>
              result = Throw(MsgNoMirror, args.originalUrl \o META4_SUFFIX, <<>>, <<>>)

\* whether the entry's URL text is to be discarded
Discarded(text, tried) ==
    \/ \E b \in {BL_BERKELEY, BL_USTC, BL_TUNA, BL_GEEKPIE} : ContainsNoCase(text, b)
    \/ MatchesTried(text, tried)

\* C3, amended: an entry with a priority and a URL is discarded exactly when
\* its URL text (not only its host) contains a Blacklist entry or an entry of
\* alreadyTried, letter case ignored; the returned URL is that of a kept
\* entry and matches neither; the call throws "Couldn't locate a single
\* mirror" with the metadata URL exactly when no entry is kept, a document
\* without url elements included.
C3_DiscardByUrlText ==
    Fetched(FnMirror) =>
        LET keep == {i \in 1..Len(metaDoc) :
                        /\ metaDoc[i].text # <<>>
                        /\ metaDoc[i].priority.has /\ metaDoc[i].priority.val # <<>>
                        /\ ~Discarded(metaDoc[i].text, args.alreadyTriedUrls)}
        IN  /\ Kept = keep
            /\ result.kind = "return" =>
                  /\ \E i \in keep : result.value = metaDoc[i].text
                  /\ ~Discarded(result.value, args.alreadyTriedUrls)
            /\ keep = {} <=>
                  result = Throw(MsgNoMirror, args.originalUrl \o META4_SUFFIX, <<>>, <<>>)

\* C3's case: the document holds an entry on a blacklisted host in capitals
\* and an entry that an alreadyTried host matches; the third entry is returned
C3_Witness ==
    /\ Fetched(FnMirror)
    /\ args.alreadyTriedUrls = Some(<<HOST_B>>)
    /\ \E i, j \in 1..Len(metaDoc) :
          /\ metaDoc[i] = [priority |-> Some(PRIO_10), text |-> U_BLACKHOST]
          /\ metaDoc[j] = [priority |-> Some(PRIO_10), text |-> U_B]
    /\ result = Return(U_A)

\* a url element with a numeric priority and a URL text
WellFormed(entry) == entry.text # <<>> /\ entry.priority.has /\ ~toNumber(entry.priority.val).nan

\* C4: a url element whose priority is missing or not a number, or whose URL
\* text is missing, is skipped: it is never returned, never changes which
\* well-formed candidate is returned and never makes the call fail. The call
\* ends as it does on the document without those elements.
C4_MalformedSkipped ==
    Fetched(FnMirror) =>
        /\ result.kind = "return" => ~LastReturned.priority.nan
        /\ result = mirrorResult(SelectSeq(metaDoc, WellFormed), args.originalUrl,
                                 args.alreadyTriedUrls).out

\* the candidates of the metadata document under a given alreadyTried
CandidatesFor(tried) == RangeOf(collectMirrors(metaDoc, tried))

\* URLs a caller may add to alreadyTried
TriedPool == {U_A, U_BLACKPATH, HOST_B, HOST_A_UPPER, <<>>}

\* C5: for a fixed metadata document, appending any URL to alreadyTried never
\* adds a candidate; appending every Blacklist host to alreadyTried changes
\* neither the candidates nor the result; an absent alreadyTried gives the
\* candidates of an empty one.
C5_FilteringMonotonic ==
    Fetched(FnMirror) =>
        LET tried == args.alreadyTriedUrls
        IN  /\ \A u \in TriedPool :
                  CandidatesFor(Some(Append(AsList(tried), u))) \subseteq CandidatesFor(tried)
            /\ collectMirrors(metaDoc, Some(AsList(tried) \o blacklisteds))
                  = collectMirrors(metaDoc, tried)
            /\ mirrorResult(metaDoc, args.originalUrl, Some(AsList(tried) \o blacklisteds))
                  = mirrorResult(metaDoc, args.originalUrl, tried)
            /\ collectMirrors(metaDoc, Undefined) = collectMirrors(metaDoc, Some(<<>>))

\* C5's case: a call returned a mirror from a document that also holds a
\* blacklisted entry, alreadyTried is not empty, and appending the returned
\* URL removes a candidate
C5_Witness ==
    /\ Fetched(FnMirror) /\ result.kind = "return"
    /\ AsList(args.alreadyTriedUrls) # <<>>
    /\ \E i \in 1..Len(metaDoc) : metaDoc[i].text = U_BLACKHOST
    /\ CandidatesFor(Some(Append(AsList(args.alreadyTriedUrls), result.value)))
          # CandidatesFor(args.alreadyTriedUrls)

\* C10: in the caller's retry loop on one metadata document no mirror URL is
\* returned twice, the priorities of the mirrors returned one after the other
\* never decrease, and at most as many mirrors are returned as the document
\* has entries, so the loop ends.
C10_RetryLoop ==
    fn = FnMirror =>
        /\ \A i, j \in 1..Len(returned) : i < j => returned[i].url # returned[j].url
        /\ \A i, j \in 1..Len(returned) :
              (i < j /\ ~returned[i].priority.nan /\ ~returned[j].priority.nan)
                  => returned[i].priority.n <= returned[j].priority.n
        /\ Len(returned) <= Len(metaDoc)

====
